---------------------------- MODULE Spec2Model ----------------------------
(***************************************************************************)
(* State machine of the ImportTab component                                *)
(* (frontend/src/components/unified-input/tabs/ImportTab.tsx).             *)
(*                                                                         *)
(* The React state cells are the variables; every event handler is one     *)
(* action, and an async handler is one action per run-to-suspension        *)
(* segment (the part before an await, the part after it).  What a step     *)
(* hands to its collaborators (toast, importFromCode, fetch) is recorded   *)
(* in out, and the handler segment that ran in lastOp.                     *)
(***************************************************************************)
EXTENDS Integers, Sequences, FiniteSets, TLC

(* ------------------------------ bounds --------------------------------- *)
MaxInflight == 2
MaxReads == 1

(* ------------------------- program constants --------------------------- *)
\* useDropzone({ maxFiles: 1 })
maxFiles == 1

(* --------------------------- JavaScript values ------------------------- *)
\* A JavaScript value as far as the component inspects it: its typeof tag
\* and, for strings, numbers and enum members, its text.
JS(t, v) == [t |-> t, v |-> v]
Str(s) == JS("string", s)
Num(n) == JS("number", n)
undefined == JS("undefined", "")
null == JS("object", "null")

\* ToBoolean of a JavaScript value (the operand of ! and ||).
Truthy(x) ==
    CASE x.t = "undefined" -> FALSE
      [] x.t = "object" -> x.v # "null"
      [] x.t = "string" -> x.v # ""
      [] x.t = "number" -> x.v \notin {"0", "NaN"}
      [] OTHER -> TRUE

\* a || b
Or(a, b) == IF Truthy(a) THEN a ELSE b

(* ------------------------------ domains -------------------------------- *)
\* enum Stack (lib/stacks); the component only names HTML_TAILWIND.
HTML_TAILWIND == JS("Stack", "html_tailwind")
Stacks == {HTML_TAILWIND, JS("Stack", "react_tailwind")}

\* Texts a user can type or paste and a scrape can return.
Texts == {"", "<p>hi</p>", "<html>...</html>"}

\* Texts a dropped file can hold.
FileTexts == {"", "<p>hi</p>"}

\* The URL input is kept as a sequence of characters so that trim() acts
\* on it: empty, blank, plain, padded on either side, and with a blank
\* inside.
Urls ==
    {<<>>, <<" ">>, <<"u">>, <<" ", "u", " ">>, <<"\t", "u">>,
     <<"u", " ", "u">>}

IsWhiteSpace(c) == c \in {" ", "\t", "\n", "\r"}

RECURSIVE TrimStart(_)
TrimStart(s) ==
    IF s # <<>> /\ IsWhiteSpace(Head(s)) THEN TrimStart(Tail(s)) ELSE s

RECURSIVE TrimEnd(_)
TrimEnd(s) ==
    IF s # <<>> /\ IsWhiteSpace(s[Len(s)])
    THEN TrimEnd(SubSeq(s, 1, Len(s) - 1))
    ELSE s

\* The URL used as typed.
NoTrim(s) == s

\* String.prototype.trim
Trim(s) == TrimEnd(TrimStart(s))

(* ------------------------------- state --------------------------------- *)
VARIABLES
    code,            \* useState("")             the text buffer
    url,             \* useState("")             the URL input
    stack,           \* useState<Stack | undefined>(Stack.HTML_TAILWIND)
    isDraggingFile,  \* useState(false)
    isScraping,      \* useState(false)          the busy flag
    scrapes,         \* doScrape invocations suspended at an await, in
                     \* dispatch order
    reads,           \* onDrop invocations suspended at file.text(), in
                     \* drop order: the content of the file being read
    out,             \* what the last step handed to toast, importFromCode
                     \* and fetch
    lastOp           \* the handler segment that ran last

session == <<code, url, stack, isDraggingFile, isScraping>>
vars == <<code, url, stack, isDraggingFile, isScraping, scrapes, reads,
          out, lastOp>>

(* ------------------------------ outputs -------------------------------- *)
Toast(kind, message) == [kind |-> kind, message |-> message]
ToastError(message) == Toast("error", message)
ToastSuccess(message) == Toast("success", message)
Call(c, s) == [code |-> c, stack |-> s]
Request(u) == [url |-> u]

Out(toasts, calls, fetches) ==
    [toasts |-> toasts, calls |-> calls, fetches |-> fetches]
NoOut == Out(<<>>, <<>>, <<>>)

\* A handler segment, and whether it called preventDefault on its event.
Op(name) == [op |-> name, defaultPrevented |-> FALSE]

Remove(s, i) == SubSeq(s, 1, i - 1) \o SubSeq(s, i + 1, Len(s))

(* ------------------------------- Init ---------------------------------- *)
Init ==
    /\ code = ""
    /\ url = <<>>
    /\ stack = HTML_TAILWIND
    /\ isDraggingFile = FALSE
    /\ isScraping = FALSE
    /\ scrapes = <<>>
    /\ reads = <<>>
    /\ out = NoOut
    /\ lastOp = Op("mount")

(* ------------------------- plain state setters ------------------------- *)
\* <Textarea onChange={(e) => setCode(e.target.value)} />
TextareaOnChange(s) ==
    /\ code' = s
    /\ out' = NoOut
    /\ lastOp' = Op("setCode")
    /\ UNCHANGED <<url, stack, isDraggingFile, isScraping, scrapes, reads>>

\* <Input onChange={(e) => setUrl(e.target.value)} />
InputOnChange(u) ==
    /\ url' = u
    /\ out' = NoOut
    /\ lastOp' = Op("setUrl")
    /\ UNCHANGED <<code, stack, isDraggingFile, isScraping, scrapes, reads>>

\* Selecting the selected stack again clears the selection.
SetStackToggle(config) ==
    /\ stack' = IF stack = config THEN undefined ELSE config
    /\ out' = NoOut
    /\ lastOp' = Op("setStack")
    /\ UNCHANGED <<code, url, isDraggingFile, isScraping, scrapes, reads>>

\* <OutputSettingsSection setStack={(config: Stack) => setStack(config)} />
SetStack(config) ==
    /\ stack' = config
    /\ out' = NoOut
    /\ lastOp' = Op("setStack")
    /\ UNCHANGED <<code, url, isDraggingFile, isScraping, scrapes, reads>>

\* onDragEnter: () => setIsDraggingFile(true)
OnDragEnter ==
    /\ isDraggingFile' = TRUE
    /\ out' = NoOut
    /\ lastOp' = Op("onDragEnter")
    /\ UNCHANGED <<code, url, stack, isScraping, scrapes, reads>>

\* onDragLeave: () => setIsDraggingFile(false)
OnDragLeave ==
    /\ isDraggingFile' = FALSE
    /\ out' = NoOut
    /\ lastOp' = Op("onDragLeave")
    /\ UNCHANGED <<code, url, stack, isScraping, scrapes, reads>>

(* ----------------------------- doImport -------------------------------- *)
\* doImport with the empty-buffer check left out.
DoImportNoEmptyCheck(c, s) ==
    IF s = undefined
    THEN Out(<<ToastError(Str("Please select your stack"))>>, <<>>, <<>>)
    ELSE Out(<<>>, <<Call(c, s)>>, <<>>)

\* doImport handing over the default stack instead of the selected one.
DoImportDefaultStack(c, s) ==
    IF c = ""
    THEN Out(<<ToastError(Str("Please paste in some code"))>>, <<>>, <<>>)
    ELSE IF s = undefined
    THEN Out(<<ToastError(Str("Please select your stack"))>>, <<>>, <<>>)
    ELSE Out(<<>>, <<Call(c, HTML_TAILWIND)>>, <<>>)

\* doImport checking the stack before the buffer.
DoImportStackFirst(c, s) ==
    IF s = undefined
    THEN Out(<<ToastError(Str("Please select your stack"))>>, <<>>, <<>>)
    ELSE IF c = ""
    THEN Out(<<ToastError(Str("Please paste in some code"))>>, <<>>, <<>>)
    ELSE Out(<<>>, <<Call(c, s)>>, <<>>)

\* What doImport hands out when it runs with code = c and stack = s.
DoImportOut(c, s) ==
    IF c = ""
    THEN Out(<<ToastError(Str("Please paste in some code"))>>, <<>>, <<>>)
    ELSE IF s = undefined
    THEN Out(<<ToastError(Str("Please select your stack"))>>, <<>>, <<>>)
    ELSE Out(<<>>, <<Call(c, s)>>, <<>>)

\* doImport clearing the buffer once it has handed it over.
DoImportClearsBuffer ==
    /\ out' = DoImportOut(code, stack)
    /\ code' = IF out'.calls # <<>> THEN "" ELSE code
    /\ lastOp' = Op("doImport")
    /\ UNCHANGED <<url, stack, isDraggingFile, isScraping, scrapes, reads>>

\* <Button onClick={doImport}>: doImport sets no state.
DoImport ==
    /\ out' = DoImportOut(code, stack)
    /\ lastOp' = Op("doImport")
    /\ UNCHANGED <<session, scrapes, reads>>

\* The keyboard shortcut recognising Cmd+Enter only.
IsSubmitKeyMetaOnly(e) == e.key = "Enter" /\ e.metaKey

\* e.key === "Enter" && (e.metaKey || e.ctrlKey)
IsSubmitKey(e) == e.key = "Enter" /\ (e.metaKey \/ e.ctrlKey)

KeyboardEvents == [key : {"Enter", "a"}, metaKey : BOOLEAN, ctrlKey : BOOLEAN]

\* <Textarea onKeyDown={handleKeyDown} />
HandleKeyDown(e) ==
    /\ out' = IF IsSubmitKey(e) THEN DoImportOut(code, stack) ELSE NoOut
    /\ lastOp' = [Op("handleKeyDown") EXCEPT
                     !.defaultPrevented = IsSubmitKey(e)]
    /\ UNCHANGED <<session, scrapes, reads>>

(* ------------------------- the scrape endpoint ------------------------- *)
\* What fetch() can resolve with: the fields of Response the handler reads.
Response(ok, statusText) == [ok |-> ok, statusText |-> statusText]
Responses ==
    {Response(TRUE, "OK"), Response(FALSE, "Bad Gateway"), Response(FALSE, "")}

\* What response.json() can settle with: a rejection (the body is not
\* JSON), the JSON value null, or a JSON value whose content and detail
\* properties read as given (undefined when the property is absent).
Body(kind, content, detail) ==
    [kind |-> kind, content |-> content, detail |-> detail]
Unparseable == Body("unparseable", undefined, undefined)
NullBody == Body("null", undefined, undefined)
Object(content, detail) == Body("object", content, detail)
Bodies ==
    {Unparseable, NullBody,
     Object(undefined, undefined),
     Object(Str("<html>...</html>"), undefined),
     Object(Str("<p>hi</p>"), undefined),
     Object(Str(""), undefined),
     Object(Num("42"), undefined),
     Object(null, undefined),
     Object(undefined, Str("bad url")),
     Object(undefined, Str(""))}

\* A thrown value as the catch clause inspects it.
Thrown(isError, message) == [isError |-> isError, message |-> message]
FetchFailures == {Thrown(TRUE, "Failed to fetch"), Thrown(FALSE, "")}
SyntaxError == Thrown(TRUE, "Unexpected token < in JSON at position 0")
\* Reading err.detail of null, and destructuring { content } from null.
TypeErrorRead == Thrown(TRUE, "Cannot read properties of null (reading 'detail')")
TypeErrorDestructure ==
    Thrown(TRUE, "Cannot destructure property 'content' of null")

(* ----------------------------- doScrape -------------------------------- *)
\* How control leaves the try block: a toast list, the text handed to
\* setCode if any, and the completion (normal, return or throw).
Completion(type, toasts, setCode, thrown) ==
    [type |-> type, toasts |-> toasts, setCode |-> setCode,
     thrown |-> thrown]

\* The error message taken from the status text even when the body parses.
ErrorMessageStatusFirst(response, body) ==
    Or(Str(response.statusText), Str("Failed to scrape URL"))

\* The status text used whenever the body gives no detail.
ErrorMessageStatusFallback(response, body) ==
    LET detail == IF body.kind = "unparseable"
                  THEN Str(response.statusText)
                  ELSE body.detail
    IN Or(detail, Or(Str(response.statusText), Str("Failed to scrape URL")))

\* lines 55-56, for a body that is not null:
\*   err = await response.json().catch(() => ({ detail: response.statusText }))
\*   err.detail || "Failed to scrape URL"
ErrorMessage(response, body) ==
    LET detail == IF body.kind = "unparseable"
                  THEN Str(response.statusText)
                  ELSE body.detail
    IN Or(detail, Str("Failed to scrape URL"))

\* line 60: !content || typeof content !== "string"
IsInvalidContent(content) == ~Truthy(content) \/ content.t # "string"

\* The error branch emptying the buffer.
NotOkBranchClearsBuffer(response, body) ==
    IF body.kind = "null"
    THEN Completion("throw", <<>>, <<>>, <<TypeErrorRead>>)
    ELSE Completion("return", <<ToastError(ErrorMessage(response, body))>>,
                    <<"">>, <<>>)

\* lines 54-58: the branch for !response.ok, once response.json() settled.
NotOkBranch(response, body) ==
    IF body.kind = "null"
    THEN Completion("throw", <<>>, <<>>, <<TypeErrorRead>>)
    ELSE Completion("return", <<ToastError(ErrorMessage(response, body))>>,
                    <<>>, <<>>)

\* The success branch that reports success without storing the content.
OkBranchNoStore(body) ==
    IF body.kind = "unparseable"
    THEN Completion("throw", <<>>, <<>>, <<SyntaxError>>)
    ELSE IF body.kind = "null"
    THEN Completion("throw", <<>>, <<>>, <<TypeErrorDestructure>>)
    ELSE IF IsInvalidContent(body.content)
    THEN Completion("return",
                    <<ToastError(Str("Invalid response from server"))>>,
                    <<>>, <<>>)
    ELSE Completion("normal",
                    <<ToastSuccess(Str("Full HTML scraped. Review below and click Import Code when ready."))>>,
                    <<>>, <<>>)

\* lines 59-65: the branch for response.ok, once response.json() settled.
\* Destructuring { content } throws on null.
OkBranch(body) ==
    IF body.kind = "unparseable"
    THEN Completion("throw", <<>>, <<>>, <<SyntaxError>>)
    ELSE IF body.kind = "null"
    THEN Completion("throw", <<>>, <<>>, <<TypeErrorDestructure>>)
    ELSE IF IsInvalidContent(body.content)
    THEN Completion("return",
                    <<ToastError(Str("Invalid response from server"))>>,
                    <<>>, <<>>)
    ELSE Completion("normal",
                    <<ToastSuccess(Str("Full HTML scraped. Review below and click Import Code when ready."))>>,
                    <<body.content.v>>, <<>>)

\* The catch clause showing the generic message whatever was thrown.
CatchAlwaysGeneric(completion) ==
    IF completion.type = "throw"
    THEN Completion("normal", <<ToastError(Str("Failed to scrape URL"))>>,
                    completion.setCode, <<>>)
    ELSE completion

\* lines 66-67: catch (e) { toast.error(e instanceof Error ? e.message : ...) }
Catch(completion) ==
    IF completion.type = "throw"
    THEN LET e == completion.thrown[1]
         IN Completion("normal",
                       <<ToastError(IF e.isError THEN Str(e.message)
                                    ELSE Str("Failed to scrape URL"))>>,
                       completion.setCode, <<>>)
    ELSE completion

\* The reset placed after the try statement instead of in a finally
\* clause: a return inside the try block skips it.
FinallySkippedOnReturn(completion, busy) ==
    IF completion.type = "return" THEN busy ELSE FALSE

\* lines 68-70: finally { setIsScraping(false) }: the value of isScraping
\* once the try statement is left, whatever the completion.
Finally(completion, busy) == FALSE

\* Only the invocation dispatched last may store its content.
SettleLatestOnly(i, completion, op) ==
    LET c == Catch(completion)
    IN /\ code' = IF c.setCode # <<>> /\ i = Len(scrapes)
                  THEN c.setCode[1] ELSE code
       /\ isScraping' = Finally(c, isScraping)
       /\ scrapes' = Remove(scrapes, i)
       /\ out' = Out(c.toasts, <<>>, <<>>)
       /\ lastOp' = op
       /\ UNCHANGED <<url, stack, isDraggingFile, reads>>

\* The state updates and outputs of a doScrape invocation that leaves its
\* try statement with the given completion.
Settle(i, completion, op) ==
    LET c == Catch(completion)
    IN /\ code' = IF c.setCode # <<>> THEN c.setCode[1] ELSE code
       /\ isScraping' = Finally(c, isScraping)
       /\ scrapes' = Remove(scrapes, i)
       /\ out' = Out(c.toasts, <<>>, <<>>)
       /\ lastOp' = op
       /\ UNCHANGED <<url, stack, isDraggingFile, reads>>

\* doScrape raising the busy flag before it checks the URL.
DoScrapeBusyBeforeCheck ==
    LET trimmedUrl == Trim(url)
    IN IF trimmedUrl = <<>>
       THEN /\ isScraping' = TRUE
            /\ out' = Out(<<ToastError(Str("Please enter a URL to scrape"))>>,
                          <<>>, <<>>)
            /\ lastOp' = Op("doScrape")
            /\ UNCHANGED <<code, url, stack, isDraggingFile, scrapes, reads>>
       ELSE /\ Len(scrapes) < MaxInflight
            /\ isScraping' = TRUE
            /\ scrapes' = Append(scrapes, [awaiting |-> "fetch",
                                           response |-> <<>>])
            /\ out' = Out(<<>>, <<>>, <<Request(trimmedUrl)>>)
            /\ lastOp' = Op("doScrape")
            /\ UNCHANGED <<code, url, stack, isDraggingFile, reads>>

\* doScrape dispatching without raising the busy flag.
DoScrapeNoBusy ==
    LET trimmedUrl == Trim(url)
    IN IF trimmedUrl = <<>>
       THEN /\ out' = Out(<<ToastError(Str("Please enter a URL to scrape"))>>,
                          <<>>, <<>>)
            /\ lastOp' = Op("doScrape")
            /\ UNCHANGED <<session, scrapes, reads>>
       ELSE /\ Len(scrapes) < MaxInflight
            /\ scrapes' = Append(scrapes, [awaiting |-> "fetch",
                                           response |-> <<>>])
            /\ out' = Out(<<>>, <<>>, <<Request(trimmedUrl)>>)
            /\ lastOp' = Op("doScrape")
            /\ UNCHANGED <<session, reads>>

\* lines 41-53: doScrape up to `await fetch(...)`.
DoScrape ==
    LET trimmedUrl == Trim(url)
    IN IF trimmedUrl = <<>>
       THEN /\ out' = Out(<<ToastError(Str("Please enter a URL to scrape"))>>,
                          <<>>, <<>>)
            /\ lastOp' = Op("doScrape")
            /\ UNCHANGED <<session, scrapes, reads>>
       ELSE /\ Len(scrapes) < MaxInflight
            /\ isScraping' = TRUE
            /\ scrapes' = Append(scrapes, [awaiting |-> "fetch",
                                           response |-> <<>>])
            /\ out' = Out(<<>>, <<>>, <<Request(trimmedUrl)>>)
            /\ lastOp' = Op("doScrape")
            /\ UNCHANGED <<code, url, stack, isDraggingFile, reads>>

\* The button disabled on an empty URL only.
ScrapeButtonDisabledUrlOnly == Trim(url) = <<>>

\* disabled={!url.trim() || isScraping}
ScrapeButtonDisabled == Trim(url) = <<>> \/ isScraping

\* <Button onClick={doScrape} disabled={...}>
ScrapeButtonOnClick == ~ScrapeButtonDisabled /\ DoScrape

\* fetch() resolved: the handler goes on to `await response.json()`, in
\* the !response.ok branch as in the other.
FetchFulfilled(i, response) ==
    /\ scrapes[i].awaiting = "fetch"
    /\ scrapes' = [scrapes EXCEPT ![i] = [awaiting |-> "json",
                                          response |-> <<response>>]]
    /\ out' = NoOut
    /\ lastOp' = Op("fetchFulfilled")
    /\ UNCHANGED session
    /\ UNCHANGED reads

\* fetch() rejected: catch, then finally.
FetchRejected(i, e) ==
    /\ scrapes[i].awaiting = "fetch"
    /\ Settle(i, Completion("throw", <<>>, <<>>, <<e>>), Op("fetchRejected"))

\* response.json() settled.
JsonSettled(i, body) ==
    /\ scrapes[i].awaiting = "json"
    /\ LET response == scrapes[i].response[1]
       IN Settle(i,
                 IF response.ok THEN OkBranch(body)
                 ELSE NotOkBranch(response, body),
                 Op("jsonSettled"))

(* ------------------------------- onDrop -------------------------------- *)
\* What a drop hands to onDrop: at most maxFiles accepted files, each given
\* by its text.
AcceptedFiles == UNION {[1..n -> FileTexts] : n \in 0..maxFiles}

\* onDrop raising the busy flag while the file is read.
OnDropSetsBusy(acceptedFiles) ==
    /\ isDraggingFile' = FALSE
    /\ IF acceptedFiles = <<>>
       THEN reads' = reads /\ isScraping' = isScraping
       ELSE /\ Len(reads) < MaxReads
            /\ reads' = Append(reads, acceptedFiles[1])
            /\ isScraping' = TRUE
    /\ out' = NoOut
    /\ lastOp' = Op("onDrop")
    /\ UNCHANGED <<code, url, stack, scrapes>>

\* lines 89-93: onDrop up to `await file.text()`.
OnDrop(acceptedFiles) ==
    /\ isDraggingFile' = FALSE
    /\ IF acceptedFiles = <<>>
       THEN reads' = reads
       ELSE /\ Len(reads) < MaxReads
            /\ reads' = Append(reads, acceptedFiles[1])
    /\ out' = NoOut
    /\ lastOp' = Op("onDrop")
    /\ UNCHANGED <<code, url, stack, isScraping, scrapes>>

\* The read appended to the buffer instead of replacing it.
FileContentsAppended(old, contents) == IF old = "" THEN contents ELSE old

\* line 94: setCode(contents)
FileContents(old, contents) == contents

\* lines 94-95: file.text() resolved.  The focus timer touches no state.
FileTextFulfilled(i) ==
    /\ code' = FileContents(code, reads[i])
    /\ reads' = Remove(reads, i)
    /\ out' = NoOut
    /\ lastOp' = Op("fileTextFulfilled")
    /\ UNCHANGED <<url, stack, isDraggingFile, isScraping, scrapes>>

\* file.text() rejected: the handler ends with an unhandled rejection.
FileTextRejected(i) ==
    /\ reads' = Remove(reads, i)
    /\ out' = NoOut
    /\ lastOp' = Op("fileTextRejected")
    /\ UNCHANGED session
    /\ UNCHANGED scrapes

(* --------------------------- specifications ---------------------------- *)
ScrapeSettles ==
    \E i \in 1..Len(scrapes) :
        \/ \E response \in Responses : FetchFulfilled(i, response)
        \/ \E e \in FetchFailures : FetchRejected(i, e)
        \/ \E body \in Bodies : JsonSettled(i, body)

Next ==
    \/ \E s \in Texts : TextareaOnChange(s)
    \/ \E u \in Urls : InputOnChange(u)
    \/ \E config \in Stacks : SetStack(config)
    \/ OnDragEnter
    \/ OnDragLeave
    \/ DoImport
    \/ \E e \in KeyboardEvents : HandleKeyDown(e)
    \/ DoScrape
    \/ ScrapeSettles
    \/ \E acceptedFiles \in AcceptedFiles : OnDrop(acceptedFiles)
    \/ \E i \in 1..Len(reads) : FileTextFulfilled(i)
    \/ \E i \in 1..Len(reads) : FileTextRejected(i)

\* The component from mount on, every handler callable at any time.
Spec == Init /\ [][Next]_vars

\* The scrape path: the handlers that read or write isScraping, the URL
\* input or the suspended doScrape invocations, with the buffer edited
\* meanwhile.  The handlers left out touch none of these.
NextScrape ==
    \/ \E s \in Texts : TextareaOnChange(s)
    \/ \E u \in Urls : InputOnChange(u)
    \/ DoScrape
    \/ ScrapeSettles

ScrapeSpec == Init /\ [][NextScrape]_vars

\* Every dispatched request settles: fetch() and response.json() return
\* promises that the transport settles.
LiveSpec == ScrapeSpec /\ WF_vars(ScrapeSettles)

\* The component as the user drives it: doScrape runs only from a click on
\* the scrape button, which a disabled button does not deliver.
NextUI ==
    \/ \E s \in Texts : TextareaOnChange(s)
    \/ \E u \in Urls : InputOnChange(u)
    \/ \E config \in Stacks : SetStack(config)
    \/ OnDragEnter
    \/ OnDragLeave
    \/ DoImport
    \/ \E e \in KeyboardEvents : HandleKeyDown(e)
    \/ ScrapeButtonOnClick
    \/ ScrapeSettles
    \/ \E acceptedFiles \in AcceptedFiles : OnDrop(acceptedFiles)
    \/ \E i \in 1..Len(reads) : FileTextFulfilled(i)
    \/ \E i \in 1..Len(reads) : FileTextRejected(i)

SpecUI == Init /\ [][NextUI]_vars

\* doImport and handleKeyDown as functions of the state cells: every value
\* of each cell's type is tried (the stack cell has type Stack | undefined).
InitGate ==
    /\ code \in Texts
    /\ url \in Urls
    /\ stack \in Stacks \cup {undefined}
    /\ isDraggingFile \in BOOLEAN
    /\ isScraping \in BOOLEAN
    /\ scrapes = <<>>
    /\ reads = <<>>
    /\ out = NoOut
    /\ lastOp = Op("mount")

NextGate ==
    \/ DoImport
    \/ \E e \in KeyboardEvents : HandleKeyDown(e)

SpecGate == InitGate /\ [][NextGate]_vars

(* ------------------------------ properties ----------------------------- *)
\* The step just taken ran the given handler segment.
Ran(name) == lastOp'.op = name

\* C1: a submit (doImport, from the button or from the keyboard shortcut)
\* that runs while the text buffer is empty never calls importFromCode,
\* whether the stack is defined or undefined.
C1_EmptyBufferNeverImports ==
    (lastOp.op \in {"doImport", "handleKeyDown"} /\ code = "")
        => out.calls = <<>>

C1_Witness ==
    /\ lastOp.op = "doImport"
    /\ code = ""
    /\ stack = undefined
    /\ out.calls = <<>>

\* C2: a submit that runs with a non-empty text buffer and a defined stack
\* calls importFromCode exactly once, with the buffer and the stack the
\* session holds, and shows no toast.
C2_SubmitCallsOnce ==
    (lastOp.op = "doImport" /\ code # "" /\ stack # undefined)
        => out = Out(<<>>, <<Call(code, stack)>>, <<>>)

C2_Witness ==
    /\ lastOp.op = "doImport"
    /\ code = "<p>hi</p>"
    /\ stack = JS("Stack", "react_tailwind")
    /\ out.calls = <<Call("<p>hi</p>", JS("Stack", "react_tailwind"))>>

\* C3: every step in which a doScrape invocation leaves its try statement
\* (HTTP error, invalid body, success, exception) ends with isScraping
\* false; and when every dispatched request settles, a busy session always
\* comes back to isScraping = false with room for a new doScrape.
C3_BusyResetOnEveryExit ==
    /\ [][Len(scrapes') < Len(scrapes) => ~isScraping']_vars
    /\ isScraping ~> (~isScraping /\ Len(scrapes) < MaxInflight)

C3_Witness ==
    /\ lastOp.op = "jsonSettled"
    /\ out.toasts = <<ToastError(Str("bad url"))>>
    /\ ~isScraping

\* C4: isScraping is true only while some doScrape invocation is suspended
\* at its request; with no request outstanding it is false.
C4_BusyOnlyWhileOutstanding == isScraping => Len(scrapes) > 0

C4_Witness ==
    /\ lastOp.op = "doScrape"
    /\ isScraping
    /\ Len(scrapes) = 1

\* C5 as stated: isScraping is false whenever a setCode step or an onDrop
\* step (start or completed read) has just run.
C5_Original ==
    lastOp.op \in {"setCode", "onDrop", "fileTextFulfilled"} => ~isScraping

\* C5 as amended: a setCode step and an onDrop step (start or completed
\* read) leave isScraping as it was; they never raise it, and it is true
\* across such a step only while a scrape request is outstanding.
C5_PasteDropKeepBusy ==
    [][(Ran("setCode") \/ Ran("onDrop") \/ Ran("fileTextFulfilled"))
           => /\ isScraping' = isScraping
              /\ (isScraping' => Len(scrapes') > 0)]_vars

C5_Witness ==
    /\ lastOp.op = "setCode"
    /\ isScraping
    /\ Len(scrapes) > 0

\* The step just taken is response.json() settling with the given body for
\* the i-th suspended invocation, whose response has the given ok flag.
JsonSettledWith(i, body, ok) ==
    /\ JsonSettled(i, body)
    /\ scrapes[i].response[1].ok = ok

\* C6: when response.json() settles on an ok response with a body whose
\* content is a non-empty string c, the buffer becomes exactly c and the
\* step shows exactly one toast, a success; the earlier segments of the
\* invocation (dispatch, fetch fulfilled) show none.
C6_ScrapeSuccessStoresContent ==
    [][/\ Ran("jsonSettled") =>
              \A i \in 1..Len(scrapes) : \A body \in Bodies :
                  (/\ JsonSettledWith(i, body, TRUE)
                   /\ body.kind = "object"
                   /\ body.content.t = "string"
                   /\ body.content.v # "")
                      => /\ code' = body.content.v
                         /\ Len(out'.toasts) = 1
                         /\ out'.toasts[1].kind = "success"
       /\ (Ran("fetchFulfilled") \/ out'.fetches # <<>>)
              => out'.toasts = <<>>]_vars

C6_Witness ==
    /\ lastOp.op = "jsonSettled"
    /\ code = "<html>...</html>"
    /\ Len(out.toasts) = 1
    /\ out.toasts[1].kind = "success"

\* The body parsed and its content is missing, is not a string, or is the
\* empty string.
ContentMissingOrInvalid(body) ==
    /\ body.kind \in {"null", "object"}
    /\ (body.content.t # "string" \/ body.content.v = "")

\* C7 as stated: when response.json() settles on an ok response whose
\* content is missing, not a string or empty, the buffer is unchanged, the
\* only toast is the error "Invalid response from server", and isScraping
\* is false.
C7_InvalidContentRejected ==
    [][Ran("jsonSettled") =>
           \A i \in 1..Len(scrapes) : \A body \in Bodies :
               (/\ JsonSettledWith(i, body, TRUE)
                /\ ContentMissingOrInvalid(body))
                   => /\ code' = code
                      /\ out'.toasts =
                             <<ToastError(Str("Invalid response from server"))>>
                      /\ ~isScraping']_vars

\* C8 as stated: when response.json() settles on a response that is not
\* ok, the error toast carries the body's detail when the body parses and
\* has one (read as: a non-empty one), and the status text when the body
\* does not parse; the buffer is unchanged.
C8_Original ==
    [][Ran("jsonSettled") =>
           \A i \in 1..Len(scrapes) : \A body \in Bodies :
               JsonSettledWith(i, body, FALSE)
                   => LET statusText == scrapes[i].response[1].statusText
                      IN /\ code' = code
                         /\ (body.kind = "object" /\ Truthy(body.detail))
                                => out'.toasts = <<ToastError(body.detail)>>
                         /\ body.kind = "unparseable"
                                => out'.toasts =
                                       <<ToastError(Str(statusText))>>]_vars

\* C8 as amended: the error toast carries the body's detail when the body
\* parses and has a non-empty detail, and the status text when the body
\* does not parse and the status text is non-empty; with an empty detail,
\* or an unparseable body and an empty status text, it carries "Failed to
\* scrape URL".  The buffer is unchanged in every case.
C8_ErrorMessageWithFallback ==
    [][Ran("jsonSettled") =>
           \A i \in 1..Len(scrapes) : \A body \in Bodies :
               JsonSettledWith(i, body, FALSE)
                   => LET statusText == scrapes[i].response[1].statusText
                          generic == Str("Failed to scrape URL")
                      IN /\ code' = code
                         /\ (body.kind = "object" /\ body.detail.t = "string")
                                => out'.toasts =
                                       <<ToastError(IF body.detail.v # ""
                                                    THEN body.detail
                                                    ELSE generic)>>
                         /\ body.kind = "unparseable"
                                => out'.toasts =
                                       <<ToastError(IF statusText # ""
                                                    THEN Str(statusText)
                                                    ELSE generic)>>]_vars

C8_Witness ==
    /\ lastOp.op = "jsonSettled"
    /\ out.toasts = <<ToastError(Str("Bad Gateway"))>>

\* C9: a keydown with Enter and Cmd or Ctrl hands out what the Import
\* button hands out from the same state (the same toasts, the same call or
\* none) and, like the button, leaves the state as it was; a keydown
\* without a modifier, or with another key, hands out nothing.
C9_ShortcutSameAsButton ==
    [][/\ Ran("handleKeyDown") =>
              \A e \in KeyboardEvents :
                  HandleKeyDown(e)
                      => /\ UNCHANGED <<session, scrapes, reads>>
                         /\ out' = IF /\ e.key = "Enter"
                                      /\ (e.metaKey \/ e.ctrlKey)
                                   THEN DoImportOut(code, stack)
                                   ELSE NoOut
       /\ Ran("doImport") =>
              /\ UNCHANGED <<session, scrapes, reads>>
              /\ out' = DoImportOut(code, stack)
              /\ out' # NoOut]_vars

C9_Witness ==
    /\ lastOp.op = "handleKeyDown"
    /\ lastOp.defaultPrevented
    /\ out.calls = <<Call(code, stack)>>

\* C10: a drop clears isDraggingFile and leaves the buffer, isScraping, the
\* stack and the URL as they were; with one accepted file it starts the
\* read of that file, with none it starts nothing.  When a read completes,
\* the buffer becomes exactly the content of the file read, and isScraping,
\* the stack and the URL are unchanged.
C10_DropReplacesBuffer ==
    [][/\ Ran("onDrop") =>
              \A acceptedFiles \in AcceptedFiles :
                  OnDrop(acceptedFiles)
                      => /\ ~isDraggingFile'
                         /\ UNCHANGED <<code, isScraping, stack, url>>
                         /\ reads' = IF Len(acceptedFiles) = 0 THEN reads
                                     ELSE Append(reads, acceptedFiles[1])
       /\ Ran("fileTextFulfilled") =>
              \A i \in 1..Len(reads) :
                  FileTextFulfilled(i)
                      => /\ code' = reads[i]
                         /\ UNCHANGED <<isScraping, stack, url>>]_vars

C10_Witness ==
    /\ lastOp.op = "fileTextFulfilled"
    /\ code = "<p>hi</p>"
    /\ reads = <<>>

\* Every character of the URL input is white space (the empty input
\* included).
IsBlank(u) == \A k \in 1..Len(u) : IsWhiteSpace(u[k])

\* t is u without its leading and trailing white space, and is not empty.
IsTrimmedOf(t, u) ==
    \E i, j \in 1..Len(u) :
        /\ i <= j
        /\ t = SubSeq(u, i, j)
        /\ ~IsWhiteSpace(u[i])
        /\ ~IsWhiteSpace(u[j])
        /\ \A k \in 1..Len(u) : (k < i \/ k > j) => IsWhiteSpace(u[k])

\* C11: doScrape on an empty or blank URL input shows the error "Please
\* enter a URL to scrape" and nothing else: no request, and the state as
\* it was.  On any other input it sends exactly one request, whose url is
\* the input without its leading and trailing white space, hence not
\* empty.
C11_EmptyUrlRejected ==
    [][Ran("doScrape") =>
           IF IsBlank(url)
           THEN /\ out' = Out(<<ToastError(Str("Please enter a URL to scrape"))>>,
                              <<>>, <<>>)
                /\ UNCHANGED <<session, scrapes, reads>>
           ELSE /\ Len(out'.fetches) = 1
                /\ IsTrimmedOf(out'.fetches[1].url, url)
                /\ out'.toasts = <<>>]_vars

C11_Witness ==
    /\ lastOp.op = "doScrape"
    /\ url = <<" ">>
    /\ out.toasts = <<ToastError(Str("Please enter a URL to scrape"))>>
    /\ out.fetches = <<>>
    /\ scrapes = <<>>

\* C12: doImport checks the buffer first and the stack second.  With an
\* empty buffer its only output is the error "Please paste in some code",
\* also when the stack is undefined; with a non-empty buffer and an
\* undefined stack its only output is the error "Please select your
\* stack".  In both cases importFromCode is not called and the state is as
\* it was.
C12_ChecksInOrder ==
    [][Ran("doImport") =>
           /\ code = ""
                  => out' = Out(<<ToastError(Str("Please paste in some code"))>>,
                                <<>>, <<>>)
           /\ (code # "" /\ stack = undefined)
                  => out' = Out(<<ToastError(Str("Please select your stack"))>>,
                                <<>>, <<>>)
           /\ (code = "" \/ stack = undefined)
                  => UNCHANGED <<session, scrapes, reads>>]_vars

C12_Witness ==
    /\ lastOp.op = "doImport"
    /\ code = "<p>hi</p>"
    /\ stack = undefined
    /\ out = Out(<<ToastError(Str("Please select your stack"))>>, <<>>, <<>>)

\* C13: a doImport that calls importFromCode leaves the buffer, the stack,
\* the URL input and isScraping as they were, so that doImport run again
\* from the state it leaves makes the same call.
C13_SubmitKeepsBuffer ==
    [][(Ran("doImport") /\ out'.calls # <<>>) =>
           /\ UNCHANGED <<session, scrapes, reads>>
           /\ code' # ""
           /\ DoImportOut(code', stack') = out']_vars

C13_Witness ==
    /\ lastOp.op = "doImport"
    /\ code = "<html>...</html>"
    /\ out.calls = <<Call("<html>...</html>", stack)>>
    /\ DoImportOut(code, stack) = out

\* C14 as stated: when response.json() settles on a response that is not
\* ok with a body that parses to an object without a detail field, the
\* error toast carries the status text.
C14_Original ==
    [][Ran("jsonSettled") =>
           \A i \in 1..Len(scrapes) : \A body \in Bodies :
               (/\ JsonSettledWith(i, body, FALSE)
                /\ body.kind = "object"
                /\ body.detail = undefined)
                   => out'.toasts =
                          <<ToastError(Str(scrapes[i].response[1].statusText))>>]_vars

\* C14 as amended: when response.json() settles on a response that is not
\* ok with a body that parses to an object without a detail field, the
\* only toast is the error "Failed to scrape URL", whatever the status
\* text; the buffer is unchanged and isScraping is reset.
C14_NoDetailGivesGeneric ==
    [][Ran("jsonSettled") =>
           \A i \in 1..Len(scrapes) : \A body \in Bodies :
               (/\ JsonSettledWith(i, body, FALSE)
                /\ body.kind = "object"
                /\ body.detail = undefined)
                   => /\ out' = Out(<<ToastError(Str("Failed to scrape URL"))>>,
                                    <<>>, <<>>)
                      /\ code' = code
                      /\ ~isScraping']_vars

C14_Witness ==
    /\ lastOp.op = "jsonSettled"
    /\ out.toasts = <<ToastError(Str("Failed to scrape URL"))>>
    /\ ~isScraping

\* The message doScrape's catch clause shows for the thrown value e.
CaughtMessage(e) ==
    IF e.isError THEN Str(e.message) ELSE Str("Failed to scrape URL")

C16_ReentrantLastWriterWins ==
    [][/\ (Ran("doScrape") /\ isScraping /\ ~IsBlank(url))
              => /\ Len(scrapes') = Len(scrapes) + 1
                 /\ Len(out'.fetches) = 1
       /\ Ran("jsonSettled") =>
              \A i \in 1..Len(scrapes) : \A body \in Bodies :
                  (/\ JsonSettledWith(i, body, TRUE)
                   /\ body.kind = "object"
                   /\ ~ContentMissingOrInvalid(body))
                      => /\ code' = body.content.v
                         /\ scrapes' = Remove(scrapes, i)]_vars

C16_Witness ==
    /\ lastOp.op = "jsonSettled"
    /\ Len(out.toasts) = 1
    /\ out.toasts[1].kind = "success"
    /\ Len(scrapes) = 1
    /\ code = "<p>hi</p>"

\* C17 as stated: in every state in which some doScrape invocation is
\* suspended on its request, isScraping is true, also when invocations
\* overlap.
C17_Original == scrapes # <<>> => isScraping

\* C17 as amended: every step that suspends a new doScrape invocation
\* leaves isScraping true, isScraping falls only in a step in which a
\* suspended invocation settles, and every such step leaves it false,
\* whether or not other invocations are still suspended.
C17_BusyUntilNextSettle ==
    [][/\ Len(scrapes') > Len(scrapes) => isScraping'
       /\ (isScraping /\ ~isScraping') => Len(scrapes') < Len(scrapes)
       /\ Len(scrapes') < Len(scrapes) => ~isScraping'
       /\ Len(scrapes') = Len(scrapes) => isScraping' = isScraping]_vars

C17_Witness ==
    /\ lastOp.op \in {"jsonSettled", "fetchRejected"}
    /\ Len(scrapes) = 1
    /\ scrapes[1].awaiting = "fetch"
    /\ ~isScraping

\* C18: when doScrape runs only from the Scrape button, at most one
\* request is outstanding in every state, isScraping is true while it is,
\* and the button is disabled exactly when the URL input is blank or
\* isScraping is true.
C18_ButtonSerialisesScrapes ==
    /\ Len(scrapes) <= 1
    /\ scrapes # <<>> => isScraping
    /\ ScrapeButtonDisabled <=> (IsBlank(url) \/ isScraping)

C18_Witness ==
    /\ Len(scrapes) = 1
    /\ ScrapeButtonDisabled
    /\ ~IsBlank(url)
    /\ lastOp.op = "setUrl"

\* C19: the stack is defined in every state, and no step shows the toast
\* "Please select your stack".
C19_StackAlwaysDefined ==
    /\ stack \in Stacks
    /\ \A k \in 1..Len(out.toasts) :
           out.toasts[k] # ToastError(Str("Please select your stack"))

C19_Witness ==
    /\ lastOp.op = "doImport"
    /\ stack # HTML_TAILWIND
    /\ out.calls = <<Call(code, stack)>>

\* The non-empty string contents the endpoint's bodies carry.
ScrapedContents ==
    {body.content.v : body \in {b \in Bodies : /\ b.kind = "object"
                                               /\ b.content.t = "string"
                                               /\ b.content.v # ""}}

\* C20: while a doScrape invocation is suspended, editing the textarea and
\* a completed file read write the buffer and leave the invocation and
\* isScraping alone; doImport hands out what the buffer and the stack are
\* at that moment and leaves the buffer alone; and when an invocation
\* settles, the buffer becomes the scraped content if the step shows a
\* success toast and is what it was before the step otherwise.
C20_EditsDuringScrape ==
    [][/\ ((Ran("setCode") \/ Ran("fileTextFulfilled") \/ Ran("onDrop"))
               /\ scrapes # <<>>)
              => UNCHANGED <<scrapes, isScraping>>
       /\ (Ran("doImport") /\ scrapes # <<>>)
              => /\ out' = DoImportOut(code, stack)
                 /\ UNCHANGED <<code, scrapes, isScraping>>
       /\ (Ran("jsonSettled") \/ Ran("fetchRejected"))
              => IF /\ out'.toasts # <<>>
                    /\ out'.toasts[1].kind = "success"
                 THEN code' \in ScrapedContents
                 ELSE code' = code]_vars

C20_Witness ==
    /\ lastOp.op = "doImport"
    /\ isScraping
    /\ scrapes # <<>>
    /\ code = "<p>hi</p>"
    /\ out.calls = <<Call(code, stack)>>

=============================================================================
